---- MODULE Spec2Model ----
(***************************************************************************)
(* gospace: the orbit simulation of src/main.go (the CelestialBody         *)
(* program, lines 146-346).                                                *)
(*                                                                         *)
(* float64 values are modelled in fixed point.  Every quantity keeps the   *)
(* unit written next to its scale below; the operators compute what the    *)
(* Go code computes, in the same order, multiplying before dividing where  *)
(* the integer division would otherwise lose the digits float64 keeps.     *)
(***************************************************************************)
EXTENDS Integers, Sequences, FiniteSets, TLC

VARIABLES
    bodies,   \* Game.sun, Game.earth, Game.moon: the CelestialBody structs
    orbits,   \* the Orbit records the bodies' orbit pointers refer to
    screen,   \* what the last Game.Draw put on the ebiten screen, in order
    phase,    \* position of ebiten's run loop: "update" or "draw"
    tick      \* number of Game.Update calls the run loop has made

vars == <<bodies, orbits, screen, phase, tick>>

----------------------------------------------------------------------------
(* Fixed-point scales of the float64 quantities.                           *)

One == 100000000   \* position_on_orbit 1.0; also one full turn of an angle
Unit == 10000      \* 1.0 of a dimensionless value: e, cos, sin, v
LenUnit == 100         \* 1.0 of a length: apoapsis, periapsis, a, r, x, y
Inv == 1000000     \* 1.0 of an inverse length: 2/r, 1/a
MassUnit == 10     \* 1.0 of a mass
NaN == 0 - 1       \* float64 NaN (never a valid value of the fields here)

screenWidth == 1600
screenHeight == 900

Nil == "nil"

\* Bound of the model: the Game.Update calls explored in the scene.
MaxTicks == 4000

----------------------------------------------------------------------------
(* math                                                                    *)

\* Angles are kept as fractions of a turn in units of 1/One: 2 * math.Pi is
\* One, and theta := position_on_orbit * 2 * math.Pi has the digits of
\* position_on_orbit.
Pi == One \div 2

Theta(position_on_orbit) == position_on_orbit

\* cos on the quarter turn around 0: with p the fraction of a turn,
\* cos(2 pi p) = (1 - 16 p^2) / (1 + 4 p^2) (Bhaskara), exact at 0, 1/6, 1/4.
CosQuarter(q) ==
    (Unit * Unit - 16 * q * q) \div (Unit + (4 * q * q) \div Unit)

\* math.Cos, result in 1/Unit; the argument is reduced to 1/Unit of a turn.
Cos(theta) ==
    LET p == (theta % One) \div (One \div Unit)
    IN  IF p <= Unit \div 4 THEN CosQuarter(p)
        ELSE IF p < 3 * (Unit \div 4) THEN 0 - CosQuarter(p - Unit \div 2)
        ELSE CosQuarter(p - Unit)

\* math.Sin: sin(t) = cos(t - pi/2).
Sin(theta) == Cos(theta + 3 * (One \div 4))

\* The largest root in lo..hi whose square is at most n, by bisection.
SqrtIter[n \in Nat, lo \in Nat, hi \in Nat] ==
    IF lo >= hi THEN lo
    ELSE IF ((lo + hi + 1) \div 2) * ((lo + hi + 1) \div 2) <= n
         THEN SqrtIter[n, (lo + hi + 1) \div 2, hi]
         ELSE SqrtIter[n, lo, (lo + hi + 1) \div 2 - 1]

\* math.Sqrt of a value in 1/(Unit*Unit), result in 1/Unit; NaN below zero.
\* 46340 is the largest root whose square the model's integers hold.
Sqrt(x) ==
    IF x = NaN \/ x < 0 THEN NaN
    ELSE SqrtIter[x, 0, IF x < 46340 THEN x ELSE 46340]

\* math.Pow(x, 2)
Pow2(x) == x * x

----------------------------------------------------------------------------
(* Orbit geometry                                                          *)

\* a := (apoapsis + periapsis) / 2
SemiMajorAxis(o) == (o.apoapsis + o.periapsis) \div 2

\* As Eccentricity, dividing by the apoapsis.
EccentricityOverApoapsis(o) ==
    LET a == SemiMajorAxis(o) IN ((a - o.periapsis) * Unit) \div o.apoapsis

\* e := (a - periapsis) / a
Eccentricity(o) ==
    LET a == SemiMajorAxis(o) IN ((a - o.periapsis) * Unit) \div a

\* r := a * (1 - e*e) / (1 + e*math.Cos(theta))
RadialDistance(a, e, theta) ==
    (a * (Unit - (e * e) \div Unit)) \div (Unit + (e * Cos(theta)) \div Unit)

\* As TrueAnomalyToPosition, with the orbit tilted out of the plane.
TrueAnomalyToPositionInclined(a, e, inclination, theta) ==
    LET r == RadialDistance(a, e, theta)
        x == (r * Cos(theta)) \div Unit
        y == (((r * Sin(theta)) \div Unit) * Cos(inclination)) \div Unit
    IN  <<x, y>>

TrueAnomalyToPosition(a, e, inclination, theta) ==
    LET r == RadialDistance(a, e, theta)
        x == (r * Cos(theta)) \div Unit
        y == (r * Sin(theta)) \div Unit
    IN  <<x, y>>

----------------------------------------------------------------------------
(* CelestialBody                                                           *)

Heap == [bodies |-> bodies, orbits |-> orbits]

\* As Speed, with 1/r in place of 2/r.
SpeedOneOverR(cb, o) ==
    LET a == SemiMajorAxis(o)
        theta == Theta(cb.position_on_orbit)
        e == Eccentricity(o)
        r == RadialDistance(a, e, theta)
        rescale == (Unit * Unit) \div (MassUnit * Inv)
    IN  Sqrt((cb.mass * Pow2(cb.gravity)
                 * ((LenUnit * Inv) \div r - (LenUnit * Inv) \div a))
             \div (60 \div rescale))

\* v of CelestialBody.Update for the body record cb on orbit record o, in
\* 1/Unit; NaN when math.Sqrt is given a negative number.  The argument of
\* math.Sqrt is in 1/(Unit*Unit): mass * gravity^2 * (2/r - 1/a) is in
\* 1/(MassUnit*Inv), and 60 is divided by the ratio of the two scales.
Speed(cb, o) ==
    LET a == SemiMajorAxis(o)
        theta == Theta(cb.position_on_orbit)
        e == Eccentricity(o)
        r == RadialDistance(a, e, theta)
        rescale == (Unit * Unit) \div (MassUnit * Inv)
    IN  Sqrt((cb.mass * Pow2(cb.gravity)
                 * ((2 * LenUnit * Inv) \div r - (LenUnit * Inv) \div a))
             \div (60 \div rescale))

\* The three steps below are functions of the position p and the speed v,
\* so that the speed is computed once per call, as in the code.

\* As Step, wrapping only above 1.
StepWrapAbove[p \in Int, v \in Int] ==
    IF p = NaN \/ v = NaN THEN NaN
    ELSE IF p + (v * v) \div 100 > One THEN 0 ELSE p + (v * v) \div 100

\* As Step, adding v / 100 (v is in 1/Unit, the position in 1/One).
StepByV[p \in Int, v \in Int] ==
    IF p = NaN \/ v = NaN THEN NaN
    ELSE IF p + (v * (One \div Unit)) \div 100 >= One THEN 0
    ELSE p + (v * (One \div Unit)) \div 100

\* cb.position_on_orbit += v * v / 100, then the wrap: if >= 1, reset to 0.
\* v * v is in 1/(Unit*Unit), which is 1/One.  A NaN stays a NaN: it is not
\* >= 1.
Step[p \in Int, v \in Int] ==
    IF p = NaN \/ v = NaN THEN NaN
    ELSE IF p + (v * v) \div 100 >= One THEN 0 ELSE p + (v * v) \div 100

AdvanceWrapAbove(cb, o) == StepWrapAbove[cb.position_on_orbit, Speed(cb, o)]

AdvanceByV(cb, o) == StepByV[cb.position_on_orbit, Speed(cb, o)]

\* cb.position_on_orbit after CelestialBody.Update.
Advance(cb, o) == Step[cb.position_on_orbit, Speed(cb, o)]

\* As Update, with position_on_orbit kept in the Orbit record, as the
\* earlier Orbit struct did (line 39): every body on the record moves.
UpdateSharedPosition(h, cb) ==
    [h EXCEPT !.bodies =
        [c \in DOMAIN h.bodies |->
            IF h.bodies[c].orbit = h.bodies[cb].orbit
            THEN [h.bodies[c] EXCEPT !.position_on_orbit =
                     Advance(h.bodies[cb], h.orbits[h.bodies[cb].orbit])]
            ELSE h.bodies[c]]]

\* As Update, taking the true anomaly from the parent's position_on_orbit,
\* as GetPosition does.
UpdateFromParent(h, cb) ==
    LET from == IF h.bodies[cb].parent = Nil THEN cb ELSE h.bodies[cb].parent
        at == [h.bodies[cb] EXCEPT !.position_on_orbit =
                  h.bodies[from].position_on_orbit]
    IN  [h EXCEPT !.bodies[cb].position_on_orbit =
            Step[h.bodies[cb].position_on_orbit,
                 Speed(at, h.orbits[h.bodies[cb].orbit])]]

\* func (cb *CelestialBody) Update(), on the heap h
Update(h, cb) ==
    [h EXCEPT !.bodies[cb].position_on_orbit =
                  Advance(h.bodies[cb], h.orbits[h.bodies[cb].orbit])]

\* As GetPosition, with the offset taken from the body's own orbit and
\* position_on_orbit.
RECURSIVE GetPositionOwn(_, _)
GetPositionOwn(h, cb) ==
    IF h.bodies[cb].parent = Nil
    THEN <<(screenWidth \div 2) * LenUnit, (screenHeight \div 2) * LenUnit>>
    ELSE LET o == h.orbits[h.bodies[cb].orbit]
             theta == Theta(h.bodies[cb].position_on_orbit)
             a == SemiMajorAxis(o)
             e == Eccentricity(o)
             xy == TrueAnomalyToPosition(a, e, o.inclination, theta)
             pxy == GetPositionOwn(h, h.bodies[cb].parent)
         IN  <<xy[1] + pxy[1], xy[2] + pxy[2]>>

\* func (cb *CelestialBody) GetPosition() (x, y float64), on the heap h
RECURSIVE GetPosition(_, _)
GetPosition(h, cb) ==
    IF h.bodies[cb].parent = Nil
    THEN <<(screenWidth \div 2) * LenUnit, (screenHeight \div 2) * LenUnit>>
    ELSE LET parent == h.bodies[cb].parent
             po == h.orbits[h.bodies[parent].orbit]
             theta == Theta(h.bodies[parent].position_on_orbit)
             a == SemiMajorAxis(po)
             e == Eccentricity(po)
             xy == TrueAnomalyToPosition(a, e, po.inclination, theta)
             pxy == GetPosition(h, parent)
         IN  <<xy[1] + pxy[1], xy[2] + pxy[2]>>

\* func (o *Orbit) Draw(cx, cy, screen): the numSteps = 1000 segments
\* between the points cx,cy + TrueAnomalyToPosition(a, e, inclination, t) are
\* kept as one entry naming the ellipse they trace.
OrbitDraw(o, cx, cy) ==
    <<[op |-> "StrokeLine", cx |-> cx, cy |-> cy, a |-> SemiMajorAxis(o),
       e |-> Eccentricity(o), inclination |-> o.inclination, radius |-> 0,
       color |-> "White"]>>

\* func (cb *CelestialBody) Draw(screen): what it appends to the screen
CelestialBodyDraw(h, cb) ==
    LET o == h.orbits[h.bodies[cb].orbit]
        a == SemiMajorAxis(o)
        theta == Theta(h.bodies[cb].position_on_orbit)
        e == Eccentricity(o)
        xy == TrueAnomalyToPosition(a, e, o.inclination, theta)
        axy == GetPosition(h, cb)
    IN  OrbitDraw(o, axy[1], axy[2])
        \o <<[op |-> "DrawFilledCircle", cx |-> axy[1] + xy[1],
              cy |-> axy[2] + xy[2], a |-> 0, e |-> 0, inclination |-> 0,
              radius |-> 5, color |-> "Red"]>>

----------------------------------------------------------------------------
(* Game                                                                    *)

\* func (g *Game) DrawFocalPoint(screen): what it appends to the screen
DrawFocalPoint ==
    <<[op |-> "DrawFilledCircle", cx |-> (screenWidth \div 2) * LenUnit,
       cy |-> (screenHeight \div 2) * LenUnit, a |-> 0, e |-> 0,
       inclination |-> 0, radius |-> 15, color |-> "Green"]>>

\* As Scene, with the sun parented to the moon.
SceneCyclic ==
    [orbits |->
        [sunOrbit   |-> [inclination |-> 0, apoapsis |-> 300 * LenUnit,
                         periapsis |-> 100 * LenUnit, period |-> Unit],
         earthOrbit |-> [inclination |-> 0, apoapsis |-> 30 * LenUnit,
                         periapsis |-> 20 * LenUnit, period |-> Unit]],
     bodies |->
        [sun   |-> [parent |-> "moon", orbit |-> "sunOrbit",
                    last_update_time |-> 0,
                    position_on_orbit |-> One \div 4,
                    mass |-> 59, gravity |-> 8],
         earth |-> [parent |-> "sun", orbit |-> "earthOrbit",
                    last_update_time |-> 0,
                    position_on_orbit |-> One \div 4,
                    mass |-> 9, gravity |-> 8],
         moon  |-> [parent |-> "sun", orbit |-> "earthOrbit",
                    last_update_time |-> 0,
                    position_on_orbit |-> 3 * (One \div 4),
                    mass |-> 9, gravity |-> 3]]]

\* func main(): the Game it constructs
Scene ==
    [orbits |->
        [sunOrbit   |-> [inclination |-> 0, apoapsis |-> 300 * LenUnit,
                         periapsis |-> 100 * LenUnit, period |-> Unit],
         earthOrbit |-> [inclination |-> 0, apoapsis |-> 30 * LenUnit,
                         periapsis |-> 20 * LenUnit, period |-> Unit]],
     bodies |->
        [sun   |-> [parent |-> Nil, orbit |-> "sunOrbit",
                    last_update_time |-> 0,
                    position_on_orbit |-> One \div 4,
                    mass |-> 59, gravity |-> 8],
         earth |-> [parent |-> "sun", orbit |-> "earthOrbit",
                    last_update_time |-> 0,
                    position_on_orbit |-> One \div 4,
                    mass |-> 9, gravity |-> 8],
         moon  |-> [parent |-> "sun", orbit |-> "earthOrbit",
                    last_update_time |-> 0,
                    position_on_orbit |-> 3 * (One \div 4),
                    mass |-> 9, gravity |-> 3]]]

Init ==
    /\ orbits = Scene.orbits
    /\ bodies = Scene.bodies
    /\ screen = <<>>
    /\ phase = "update"
    /\ tick = 0

\* func (g *Game) Update() error
GameUpdate ==
    /\ phase = "update"
    /\ tick < MaxTicks
    /\ LET h == Update(Update(Update(Heap, "sun"), "earth"), "moon")
       IN  /\ bodies' = h.bodies
           /\ orbits' = h.orbits
    /\ tick' = tick + 1
    /\ phase' = "draw"
    /\ UNCHANGED screen

\* func (g *Game) Draw(screen)
GameDraw ==
    /\ phase = "draw"
    /\ screen' = <<[op |-> "Fill", cx |-> 0, cy |-> 0, a |-> 0, e |-> 0,
                    inclination |-> 0, radius |-> 0, color |-> "Black"]>>
                 \o CelestialBodyDraw(Heap, "sun")
                 \o CelestialBodyDraw(Heap, "earth")
                 \o CelestialBodyDraw(Heap, "moon")
    /\ phase' = "update"
    /\ UNCHANGED <<bodies, orbits, tick>>

\* ebiten.RunGame(game): every tick one Update, then one Draw.
Next == GameUpdate \/ GameDraw

Spec == Init /\ [][Next]_vars

----------------------------------------------------------------------------
(* One CelestialBody under repeated Update calls.                          *)

Body(parent, position_on_orbit, mass, gravity) ==
    [parent |-> parent, orbit |-> "orbit", last_update_time |-> 0,
     position_on_orbit |-> position_on_orbit, mass |-> mass,
     gravity |-> gravity]

Orbit(inclination, apoapsis, periapsis) ==
    [inclination |-> inclination, apoapsis |-> apoapsis * LenUnit,
     periapsis |-> periapsis * LenUnit, period |-> Unit]

\* The bodies of main, each with its orbit.
Reference ==
    {[body |-> Scene.bodies[b], orbit |-> Scene.orbits[Scene.bodies[b].orbit]]
        : b \in DOMAIN Scene.bodies}

\* Further bodies with a valid orbit (apoapsis >= periapsis > 0):
\*   a body of main's sun's mass on earth's orbit, started at 0;
\*   a body on a circular orbit;
\*   a body on an inclined orbit;
\*   a body without mass, which never moves;
\*   a body whose step is exactly 1/64, which reaches exactly 1.
Others ==
    {[body |-> Body(Nil, 0, 59, 8), orbit |-> Orbit(0, 30, 20)],
     [body |-> Body(Nil, One \div 2, 59, 8), orbit |-> Orbit(0, 50, 50)],
     [body |-> Body(Nil, One \div 8, 59, 8), orbit |-> Orbit(One \div 8, 20, 10)],
     [body |-> Body(Nil, One \div 4, 0, 8), orbit |-> Orbit(0, 300, 100)],
     [body |-> Body(Nil, One \div 4, 150, 25), orbit |-> Orbit(0, 100, 100)]}

InitBody ==
    /\ \E c \in Reference \cup Others :
          /\ bodies = [cb |-> [c.body EXCEPT !.orbit = "orbit"]]
          /\ orbits = [orbit |-> c.orbit]
    /\ screen = <<>>
    /\ phase = "update"
    /\ tick = 0

\* func (cb *CelestialBody) Update(), called on the one body
BodyUpdate ==
    /\ LET h == Update(Heap, "cb")
       IN  /\ bodies' = h.bodies
           /\ orbits' = h.orbits
    /\ UNCHANGED <<screen, phase, tick>>

NextBody == BodyUpdate

\* Game.Update is called on every tick for as long as the game runs.
BodySpec == InitBody /\ [][NextBody]_vars /\ WF_vars(BodyUpdate)

----------------------------------------------------------------------------
(* Properties of one body under repeated Update calls (BodySpec).          *)

Abs(x) == IF x < 0 THEN 0 - x ELSE x

\* Equal up to one unit of the fixed-point resolution.
Near(x, y) == Abs(x - y) <= 1

\* Equal up to the rounding of math.Sqrt (v has four decimals): 1/200 of y.
Close(x, y) == Abs(x - y) * 200 <= Abs(y) + 200

Position(b) == bodies[b].position_on_orbit

OrbitOf(b) == orbits[bodies[b].orbit]

\* The value position_on_orbit + v*v/100 that Update compares with 1.
Incremented(b) ==
    LET v == Speed(bodies[b], OrbitOf(b))
    IN  IF v = NaN \/ Position(b) = NaN THEN NaN
        ELSE Position(b) + (v * v) \div 100

PositionInRange ==
    \A b \in DOMAIN bodies : Position(b) >= 0 /\ Position(b) < One

MonotonicWrapStep ==
    \A b \in DOMAIN bodies :
        LET p == Position(b)
            q == bodies'[b].position_on_orbit
        IN  /\ q >= 0 /\ q < One
            /\ q >= p \/ q = 0
            /\ (Incremented(b) # NaN /\ Incremented(b) >= One) <=> (q = 0)

ClaimedIncrement(cb, o) ==
    LET a == (o.apoapsis + o.periapsis) \div 2
        e == ((a - o.periapsis) * Unit) \div a
        cos == Cos(cb.position_on_orbit)
        r == (a * (Unit - (e * e) \div Unit)) \div (Unit + (e * cos) \div Unit)
        vis == (2 * LenUnit * Inv) \div r - (LenUnit * Inv) \div a
    IN  ((cb.mass * cb.gravity * cb.gravity * vis)
            \div ((60 * MassUnit * Inv) \div One)) \div 100

\* 5.9 * 64 / 60 * (2/150 - 1/200) / 100
SunIncrement ==
    ((59 * 64 * ((2 * LenUnit * Inv) \div (150 * LenUnit)
                   - (LenUnit * Inv) \div (200 * LenUnit)))
        \div ((60 * MassUnit * Inv) \div One)) \div 100

IsSun(b) ==
    /\ bodies[b].mass = 59 /\ bodies[b].gravity = 8
    /\ OrbitOf(b).apoapsis = 300 * LenUnit
    /\ OrbitOf(b).periapsis = 100 * LenUnit

IncrementStep ==
    \A b \in DOMAIN bodies :
        LET p == Position(b)
            q == bodies'[b].position_on_orbit
        IN  (q # 0 \/ q = p) =>
                /\ Close(q - p, ClaimedIncrement(bodies[b], OrbitOf(b)))
                /\ (IsSun(b) /\ p = One \div 4) =>
                      /\ RadialDistance(SemiMajorAxis(OrbitOf(b)),
                             Eccentricity(OrbitOf(b)), Theta(p)) = 150 * LenUnit
                      /\ SemiMajorAxis(OrbitOf(b)) = 200 * LenUnit
                      /\ Close(q - p, SunIncrement)

\* C5: when no wrap occurs, one Update call increases position_on_orbit by
\* mass * gravity^2 / 60 * (2/r - 1/a) / 100 (up to the rounding of the
\* square root), a, e and r taken from the value before the call; for the
\* sun at 0.25 (r = 150, a = 200) by 5.9*64/60*(2/150 - 1/200)/100.
C5_Increment == [][IncrementStep]_vars

\* The sun after its first Update from 0.25.
C5_Witness ==
    \E b \in DOMAIN bodies :
        /\ IsSun(b)
        /\ Position(b) > One \div 4
        /\ Position(b) < One \div 4 + 2 * SunIncrement

Inclinations == {0, One \div 8, One \div 4}

GeometryAt(b) ==
    LET o == OrbitOf(b)
        a == SemiMajorAxis(o)
        e == Eccentricity(o)
        peri == TrueAnomalyToPosition(a, e, o.inclination, 0)
        apo == TrueAnomalyToPosition(a, e, o.inclination, Pi)
    IN  /\ a > 0 /\ e >= 0 /\ e < Unit
        /\ Near(peri[1], (a * (Unit - e)) \div Unit) /\ peri[2] = 0
        /\ Near(0 - apo[1], (a * (Unit + e)) \div Unit) /\ apo[2] = 0
        /\ Near(peri[1], o.periapsis)
        /\ Near(0 - apo[1], o.apoapsis)
        /\ \A i \in Inclinations :
             \A theta \in {0, Pi, Theta(Position(b))} :
                TrueAnomalyToPosition(a, e, i, theta)
                    = TrueAnomalyToPosition(a, e, o.inclination, theta)

\* C6: for a > 0 and 0 <= e < 1, TrueAnomalyToPosition gives the point
\* (a(1-e), 0) at theta = 0 and (-a(1+e), 0) at theta = pi; with a and e
\* derived from an orbit these distances are its periapsis and apoapsis;
\* the inclination argument has no effect on the result.
C6_Geometry == \A b \in DOMAIN bodies : GeometryAt(b)

\* The body on the inclined orbit (e = 1/3), moved away from its start.
C6_Witness ==
    \E b \in DOMAIN bodies :
        /\ OrbitOf(b).inclination # 0
        /\ Eccentricity(OrbitOf(b)) = 3333
        /\ Position(b) > One \div 2

IsReference(b) ==
    \E c \in Reference :
        /\ c.orbit = OrbitOf(b)
        /\ c.body.mass = bodies[b].mass
        /\ c.body.gravity = bodies[b].gravity

StepPositive(b) ==
    LET v == Speed(bodies[b], OrbitOf(b))
    IN  v # NaN /\ (v * v) \div 100 > 0

\* C10: for the bodies of main the per-tick increment of position_on_orbit
\* is strictly positive in every reachable state, and under repeated ticks
\* each body's position_on_orbit is reset to 0 infinitely often.
C10_NoStall ==
    /\ [](\A b \in DOMAIN bodies : IsReference(b) => StepPositive(b))
    /\ []<>(\A b \in DOMAIN bodies : IsReference(b) => Position(b) = 0)

\* The moon of main (gravity 3, started at 0.75), reset to 0.
C10_Witness ==
    \E b \in DOMAIN bodies :
        IsReference(b) /\ bodies[b].gravity = 3 /\ Position(b) = 0

----------------------------------------------------------------------------
(* Properties of the scene of main under the run loop (Spec).              *)

Origin == <<(screenWidth \div 2) * LenUnit, (screenHeight \div 2) * LenUnit>>

Plus(u, w) == <<u[1] + w[1], u[2] + w[2]>>

Moved(b) == Position(b) # Scene.bodies[b].position_on_orbit

\* What Update(b) leaves alone, on every reachable heap.
UpdateFrame ==
    \A b \in DOMAIN bodies :
        LET h == Update(Heap, b)
        IN  /\ h.orbits = orbits
            /\ \A c \in DOMAIN bodies \ {b} : h.bodies[c] = bodies[c]
            /\ h.bodies[b] = [bodies[b] EXCEPT !.position_on_orbit =
                                 h.bodies[b].position_on_orbit]

TickFrame ==
    /\ orbits' = orbits
    /\ \A b \in DOMAIN bodies :
          bodies'[b] = [bodies[b] EXCEPT !.position_on_orbit =
                           bodies'[b].position_on_orbit]

\* C2: Update on a body b changes only b.position_on_orbit: every other
\* body's position_on_orbit, every Orbit record and every body's mass,
\* gravity and parent are unchanged; with the moon sharing earth's Orbit
\* record, updating earth never changes the moon's position_on_orbit and
\* updating the moon never changes earth's.
C2_UpdateFrame == []UpdateFrame /\ [][TickFrame]_vars

\* Earth and moon share an Orbit record, both have moved, and the next
\* Update of each moves it again.
C2_Witness ==
    /\ bodies["moon"].orbit = bodies["earth"].orbit
    /\ Moved("earth") /\ Moved("moon")
    /\ Position("earth") # Position("moon")
    /\ Update(Heap, "earth").bodies["earth"] # bodies["earth"]
    /\ Update(Heap, "moon").bodies["moon"] # bodies["moon"]

\* The heap with body b moved to position p on the orbit record o.
Placed(b, p, o) ==
    [Heap EXCEPT !.bodies[b].position_on_orbit = p, !.bodies[b].orbit = o]

SamplePositions == {0, One \div 8, One \div 4, One \div 2, 3 * (One \div 4)}

PositionOf(b) ==
    IF bodies[b].parent = Nil THEN GetPosition(Heap, b) = Origin
    ELSE LET parent == bodies[b].parent
             po == OrbitOf(parent)
             a == (po.apoapsis + po.periapsis) \div 2
             e == ((a - po.periapsis) * Unit) \div a
         IN  /\ GetPosition(Heap, b)
                   = Plus(GetPosition(Heap, parent),
                          TrueAnomalyToPosition(a, e, po.inclination,
                              Theta(Position(parent))))
             /\ \A p \in SamplePositions : \A o \in DOMAIN orbits :
                   GetPosition(Placed(b, p, o), b) = GetPosition(Heap, b)

\* C3: GetPosition returns the fixed origin (the screen centre) for a
\* parentless body; for a body with a parent it returns the parent's
\* GetPosition plus the offset computed from the parent's position_on_orbit
\* and the parent's orbit (a, e from its apoapsis and periapsis), and does
\* not depend on the body's own orbit or own position_on_orbit.
C3_GetPosition == \A b \in DOMAIN bodies : PositionOf(b)

\* The sun has moved; earth and moon differ in position_on_orbit, and
\* earth's own orbit and position would give another offset.
C3_Witness ==
    /\ Moved("sun")
    /\ Position("earth") # Position("moon")
    /\ GetPosition(Heap, "earth") = GetPosition(Heap, "moon")
    /\ TrueAnomalyToPosition(SemiMajorAxis(OrbitOf("earth")),
           Eccentricity(OrbitOf("earth")), 0, Theta(Position("earth")))
         # TrueAnomalyToPosition(SemiMajorAxis(OrbitOf("sun")),
               Eccentricity(OrbitOf("sun")), 0, Theta(Position("sun")))

\* The case of C4: the sun parentless at 0.25 on the orbit 300/100/0, earth
\* parented to the sun.
SunAtQuarter ==
    /\ bodies["sun"].parent = Nil
    /\ Position("sun") = One \div 4
    /\ OrbitOf("sun").apoapsis = 300 * LenUnit
    /\ OrbitOf("sun").periapsis = 100 * LenUnit
    /\ OrbitOf("sun").inclination = 0
    /\ bodies["earth"].parent = "sun"

\* C4 as stated: GetPosition(earth) is the origin plus
\* positionFromAnomaly(a = 200, e = 0.3333, i = 0, theta = 0.5 pi), and that
\* offset is (0, 150).
C4_AsStated ==
    SunAtQuarter =>
        /\ GetPosition(Heap, "earth")
              = Plus(Origin, TrueAnomalyToPosition(200 * LenUnit, 3333, 0, Pi \div 2))
        /\ Near(TrueAnomalyToPosition(200 * LenUnit, 3333, 0, Pi \div 2)[1], 0)
        /\ Near(TrueAnomalyToPosition(200 * LenUnit, 3333, 0, Pi \div 2)[2],
                150 * LenUnit)

\* C4, amended: with the sun parentless at 0.25 on the orbit 300/100/0 and
\* earth parented to the sun, GetPosition(earth) is the origin plus
\* positionFromAnomaly(a = 200, e = 0.5, i = 0, theta = 0.5 pi), and that
\* offset is (0, 150).
C4_Composition ==
    SunAtQuarter =>
        /\ GetPosition(Heap, "earth")
              = Plus(Origin, TrueAnomalyToPosition(200 * LenUnit, Unit \div 2, 0, Pi \div 2))
        /\ TrueAnomalyToPosition(200 * LenUnit, Unit \div 2, 0, Pi \div 2)
              = <<0, 150 * LenUnit>>

\* The scene as main builds it: earth is drawn around (800, 600).
C4_Witness ==
    /\ SunAtQuarter
    /\ GetPosition(Heap, "earth") = <<800 * LenUnit, 600 * LenUnit>>

Orders ==
    {<<"sun", "earth", "moon">>, <<"sun", "moon", "earth">>,
     <<"earth", "sun", "moon">>, <<"earth", "moon", "sun">>,
     <<"moon", "sun", "earth">>, <<"moon", "earth", "sun">>}

InOrder(h, order) == Update(Update(Update(h, order[1]), order[2]), order[3])

TickCommutes ==
    (phase = "update" /\ phase' = "draw") =>
        \A order \in Orders :
            InOrder(Heap, order) = [bodies |-> bodies', orbits |-> orbits']

\* C7: Game.Update calls CelestialBody.Update exactly once per tick on each
\* of sun, earth and moon, and the state after the tick is the same for
\* every one of the 6 orders of the three body updates.
C7_OrderIndependent == [][TickCommutes]_vars

\* A tick has moved all three bodies.
C7_Witness ==
    /\ phase = "draw"
    /\ Moved("sun") /\ Moved("earth") /\ Moved("moon")

\* The parent links GetPosition follows from cb to a parentless body;
\* more than fuel links count as fuel + 1.
RECURSIVE ParentLinks(_, _, _)
ParentLinks(h, cb, fuel) ==
    IF h.bodies[cb].parent = Nil THEN 0
    ELSE IF fuel = 0 THEN 1
    ELSE 1 + ParentLinks(h, h.bodies[cb].parent, fuel - 1)

Rooted ==
    /\ {b \in DOMAIN bodies : bodies[b].parent = Nil} = {"sun"}
    /\ \A b \in DOMAIN bodies :
          ParentLinks(Heap, b, Cardinality(DOMAIN bodies)) <= 2

ParentsKept ==
    /\ \A b \in DOMAIN bodies : bodies'[b].parent = bodies[b].parent
    /\ (phase = "draw" /\ phase' = "update") =>
          (bodies' = bodies /\ orbits' = orbits)

\* C8: in the scene built by main the parent relation is acyclic and rooted
\* at the single parentless body (sun); the parent field is never
\* reassigned, so in every reachable state GetPosition follows at most 2
\* parent links, and Game.Draw, which calls it, modifies no body or orbit.
C8_Terminates == []Rooted /\ [][ParentsKept]_vars

\* After a tick and its Draw: GetPosition was called for every body, and
\* followed one link for the moon.
C8_Witness ==
    /\ tick > 0 /\ phase = "update"
    /\ Len(screen) = 7
    /\ ParentLinks(Heap, "moon", Cardinality(DOMAIN bodies)) = 1

Drawn(entry) == \E i \in 1..Len(screen) : screen[i] = entry

\* C9: on every frame the full scene is rendered (Game has no focused
\* body, so no frame shows a detail view): all three bodies, their orbit
\* ellipses, and a focal marker at the origin.  Stated of the screen as
\* Game.Draw leaves it.
C9_RenderSelection ==
    (phase = "update" /\ screen # <<>>) =>
        /\ \A b \in DOMAIN bodies :
              \A i \in 1..2 : Drawn(CelestialBodyDraw(Heap, b)[i])
        /\ Drawn(DrawFocalPoint[1])
====
